---- MODULE Spec2Model ----
(***************************************************************************)
(* Binance Futures Testnet bot (src/main.py): the BasicBot command facade  *)
(* over the exchange client, and the Streamlit session that drives it.     *)
(*                                                                         *)
(* Text (str) is a sequence of one-character strings, so that upper(),     *)
(* float(), int() and str() are computed character by character.           *)
(* An optional value (None or a value) is a sequence of length 0 or 1.     *)
(***************************************************************************)
EXTENDS Integers, Sequences, FiniteSets, TLC

(***************************************************************************)
(* Bounds of the model.                                                    *)
(***************************************************************************)
MaxWordLen == 2      \* longest symbol / side text given to the facade
MaxAssetLen == 1     \* longest asset code besides USDT
MaxBalances == 2     \* longest balance list the exchange returns
MaxQtyLen == 2       \* longest text typed in the quantity field
MaxPriceLen == 3     \* longest text typed in the limit price field
MaxIdLen == 2        \* longest text typed in the order id field

(***************************************************************************)
(* Text helpers.                                                           *)
(***************************************************************************)
RECURSIVE TextsUpTo(_, _)
\* all texts over the characters cs of length 0..n
TextsUpTo(cs, n) ==
    IF n = 0 THEN {<<>>}
    ELSE LET shorter == TextsUpTo(cs, n - 1)
         IN  shorter \cup {Append(t, c) : t \in shorter, c \in cs}

LowerAlpha == <<"a","b","c","d","e","f","g","h","i","j","k","l","m",
                "n","o","p","q","r","s","t","u","v","w","x","y","z">>
UpperAlpha == <<"A","B","C","D","E","F","G","H","I","J","K","L","M",
                "N","O","P","Q","R","S","T","U","V","W","X","Y","Z">>

\* one character of str.upper(): a lower-case letter becomes its capital
UpperChar(c) ==
    IF \E i \in 1..26 : LowerAlpha[i] = c
    THEN UpperAlpha[CHOOSE i \in 1..26 : LowerAlpha[i] = c]
    ELSE c

\* a mutant of Upper: the text is passed on as typed
UpperDropped(s) == s

\* str.upper()
Upper(s) == [i \in 1..Len(s) |-> UpperChar(s[i])]

Digits == <<"0","1","2","3","4","5","6","7","8","9">>
IsDigit(c) == \E i \in 1..10 : Digits[i] = c
DigitVal(c) == (CHOOSE i \in 1..10 : Digits[i] = c) - 1

RECURSIVE DigitsToNat(_)
\* the number a run of decimal digits denotes ("" denotes 0)
DigitsToNat(ds) ==
    IF Len(ds) = 0 THEN 0
    ELSE 10 * DigitsToNat(SubSeq(ds, 1, Len(ds) - 1)) + DigitVal(ds[Len(ds)])

RECURSIVE NatToDigits(_)
\* the decimal digits of a natural number, without leading zeros
NatToDigits(n) ==
    IF n < 10 THEN <<Digits[n + 1]>>
    ELSE Append(NatToDigits(n \div 10), Digits[(n % 10) + 1])

RECURSIVE Zeros(_)
Zeros(n) == IF n <= 0 THEN <<>> ELSE <<"0">> \o Zeros(n - 1)

(***************************************************************************)
(* Python float: float(text), comparison with 0, str(float).               *)
(* A finite float is sign, mantissa m and exponent e (value m * 10^e) with *)
(* m not divisible by 10; every text of the model has far fewer than 15    *)
(* significant digits, for which the binary double determines exactly this *)
(* shortest decimal.                                                       *)
(***************************************************************************)
FloatNaN == [kind |-> "nan", neg |-> FALSE, m |-> 0, e |-> 0]

RECURSIVE MkFloat(_, _, _)
MkFloat(neg, m, e) ==
    IF m = 0 THEN [kind |-> "num", neg |-> neg, m |-> 0, e |-> 0]
    ELSE IF m % 10 = 0 THEN MkFloat(neg, m \div 10, e + 1)
    ELSE [kind |-> "num", neg |-> neg, m |-> m, e |-> e]

\* the text after one optional sign
Unsigned(s) == IF Len(s) > 0 /\ s[1] \in {"-", "+"} THEN Tail(s) ELSE s
Negative(s) == Len(s) > 0 /\ s[1] = "-"

\* digits [ "." [digits] ]  or  "." digits
IsDecimalText(b) ==
    /\ \A i \in 1..Len(b) : IsDigit(b[i]) \/ b[i] = "."
    /\ Cardinality({i \in 1..Len(b) : b[i] = "."}) <= 1
    /\ \E i \in 1..Len(b) : IsDigit(b[i])

DotAt(b) == IF \E i \in 1..Len(b) : b[i] = "."
            THEN CHOOSE i \in 1..Len(b) : b[i] = "."
            ELSE Len(b) + 1

\* float(text): <<x>>, or <<>> when Python raises ValueError.  Of the forms
\* float() accepts, the texts of the model spell decimals and "nan".
ParseFloat(s) ==
    LET b == Unsigned(s) IN
    IF Upper(b) = <<"N", "A", "N">> THEN <<FloatNaN>>
    ELSE IF IsDecimalText(b)
    THEN LET int  == SubSeq(b, 1, DotAt(b) - 1)
             frac == SubSeq(b, DotAt(b) + 1, Len(b))
         IN  <<MkFloat(Negative(s), DigitsToNat(int \o frac), 0 - Len(frac))>>
    ELSE <<>>

\* x <= 0 : every comparison with NaN is False
FloatLeqZero(x) == x.kind = "num" /\ (x.m = 0 \/ x.neg)

\* the exponent of repr's scientific form: sign and at least two digits
ExpText(x) ==
    (IF x < 0 THEN <<"-">> ELSE <<"+">>)
    \o (LET a == IF x < 0 THEN 0 - x ELSE x
        IN  IF a < 10 THEN <<"0">> \o NatToDigits(a) ELSE NatToDigits(a))

\* str(float): repr's shortest decimal, fixed notation when the decimal
\* point position decpt satisfies -4 < decpt <= 16, scientific otherwise
FloatStr(x) ==
    IF x.kind = "nan" THEN <<"n", "a", "n">>
    ELSE LET sign   == IF x.neg THEN <<"-">> ELSE <<>>
             ds     == NatToDigits(x.m)
             n      == Len(ds)
             decpt  == IF x.m = 0 THEN 1 ELSE n + x.e
         IN  sign \o
             (IF decpt <= -4 \/ decpt > 16
              THEN <<ds[1]>>
                   \o (IF n > 1 THEN <<".">> \o SubSeq(ds, 2, n) ELSE <<>>)
                   \o <<"e">> \o ExpText(decpt - 1)
              ELSE IF decpt <= 0
              THEN <<"0", ".">> \o Zeros(0 - decpt) \o ds
              ELSE IF decpt >= n
              THEN ds \o Zeros(decpt - n) \o <<".", "0">>
              ELSE SubSeq(ds, 1, decpt) \o <<".">> \o SubSeq(ds, decpt + 1, n))

\* a mutant of ParseInt: a text that is no integer counts as 0
ParseIntLenient(s) ==
    LET b == Unsigned(s) IN
    IF Len(b) > 0 /\ \A i \in 1..Len(b) : IsDigit(b[i])
    THEN <<IF Negative(s) THEN 0 - DigitsToNat(b) ELSE DigitsToNat(b)>>
    ELSE <<0>>

\* int(text): <<n>>, or <<>> when Python raises ValueError
ParseInt(s) ==
    LET b == Unsigned(s) IN
    IF Len(b) > 0 /\ \A i \in 1..Len(b) : IsDigit(b[i])
    THEN <<IF Negative(s) THEN 0 - DigitsToNat(b) ELSE DigitsToNat(b)>>
    ELSE <<>>

(***************************************************************************)
(* The exchange client (python-binance over requests), as the facade sees  *)
(* it: a call returns a payload or raises.  A message (str(e) or an        *)
(* f-string) is a text as well, of one or more pieces.                     *)
(***************************************************************************)
Returns(v) == [raised |-> FALSE, value |-> v]
Raises(x)  == [raised |-> TRUE, exc |-> x]
Exc(class, msg) == [class |-> class, msg |-> msg]

\* JSON values of a "details" entry: a string or a decoded object
JStr(s) == [t |-> "str", v |-> s]
JObj(o) == [t |-> "obj", v |-> o]

\* the error object the exchange sends in the body of a failed request
ErrorBody == [code |-> -2019, msg |-> "Margin is insufficient."]

\* e.response of a BinanceAPIException: the HTTP response, whose body is
\* JSON (json |-> <<decoded>>) or is not (json |-> <<>>, e.g. a gateway's
\* HTML page).  python-binance raises for every status outside 2xx.
Responses == [status : {302, 400}, json : {<<>>, <<ErrorBody>>}]

\* bool(response) is requests' Response.ok: the status is below 400
Truthy(optResponse) == optResponse # <<>> /\ optResponse[1].status < 400

\* BinanceAPIException carries .response (None when built without one);
\* BinanceOrderException(code, message) has no such attribute; the third is
\* any other fault (a requests ConnectionError, a BinanceRequestException)
ApiExceptions ==
    {[class |-> "BinanceAPIException",
      msg |-> <<"APIError(code=-2019): Margin is insufficient.">>,
      response |-> r] : r \in {<<>>} \cup {<<x>> : x \in Responses}}
OrderExceptions ==
    {Exc("BinanceOrderException", <<"Order would immediately trigger.">>)}
OtherExceptions ==
    {Exc("ConnectionError", <<"Connection refused">>)}
Exceptions == ApiExceptions \cup OrderExceptions \cup OtherExceptions

TimePayloads  == {[serverTime |-> 1], [serverTime |-> 2]}
OrderPayloads == {[orderId |-> 7, status |-> "NEW"],
                  [orderId |-> 8, status |-> "FILLED"]}

USDT == <<"U", "S", "D", "T">>
AssetLetters == {"u", "U"}
AssetCodes == (TextsUpTo(AssetLetters, MaxAssetLen) \ {<<>>}) \cup {USDT}
BalanceRecords == [asset : AssetCodes, balance : {"100.0", "0.5"}]
BalanceLists == TextsUpTo(BalanceRecords, MaxBalances)

\* what a transport call can do, by the payloads of its endpoint
Outcomes(payloads) ==
    {Returns(p) : p \in payloads} \cup {Raises(x) : x \in Exceptions}

(***************************************************************************)
(* BasicBot: the command facade.  Each operation yields the request it     *)
(* hands to the client (sent) and what it gives its caller (ret): a        *)
(* returned value, or an exception that leaves the method.                 *)
(***************************************************************************)
\* e.response.json() if e.response else "No response details"
Details(e) ==
    IF "response" \notin DOMAIN e
    THEN Raises(Exc("AttributeError", <<"object has no attribute 'response'">>))
    ELSE IF Truthy(e.response)
    THEN IF e.response[1].json # <<>>
         THEN Returns(JObj(e.response[1].json[1]))
         ELSE Raises(Exc("JSONDecodeError", <<"Expecting value">>))
    ELSE Returns(JStr("No response details"))

\* return {"error": str(e), "details": ...}
FailureWithDetails(e) ==
    LET d == Details(e) IN
    IF d.raised THEN d
    ELSE Returns([error |-> e.msg, details |-> d.value])

\* a mutant of Failure: the placeholder is attached here as well
FailurePlaceholder(e) ==
    Returns([error |-> e.msg, details |-> JStr("No response details")])

\* return {"error": str(e)}
Failure(e) == Returns([error |-> e.msg])

\* a mutant of get_server_time: the payload is rebuilt with a field added
get_server_time_rebuilt(out) ==
    [sent |-> [call |-> "futures_time"],
     ret  |-> IF ~out.raised
              THEN Returns([serverTime |-> out.value.serverTime,
                            connected |-> TRUE])
              ELSE Failure(out.exc)]

get_server_time(out) ==
    [sent |-> [call |-> "futures_time"],
     ret  |-> IF ~out.raised
              THEN IF "serverTime" \in DOMAIN out.value
                   THEN Returns(out.value)
                   ELSE Returns([error |-> <<"'serverTime'">>])
              ELSE Failure(out.exc)]

place_market_order(symbol, side, quantity, out) ==
    [sent |-> [call |-> "futures_create_order", symbol |-> Upper(symbol),
               side |-> Upper(side), type |-> "MARKET", quantity |-> quantity],
     ret  |-> IF ~out.raised THEN Returns(out.value)
              ELSE IF out.exc.class = "BinanceAPIException"
              THEN FailureWithDetails(out.exc)
              ELSE IF out.exc.class = "BinanceOrderException"
              THEN FailureWithDetails(out.exc)
              ELSE Failure(out.exc)]

place_limit_order(symbol, side, quantity, price, out) ==
    [sent |-> [call |-> "futures_create_order", symbol |-> Upper(symbol),
               side |-> Upper(side), type |-> "LIMIT", timeInForce |-> "GTC",
               quantity |-> quantity, price |-> FloatStr(price)],
     ret  |-> IF ~out.raised THEN Returns(out.value)
              ELSE IF out.exc.class = "BinanceAPIException"
              THEN FailureWithDetails(out.exc)
              ELSE IF out.exc.class = "BinanceOrderException"
              THEN FailureWithDetails(out.exc)
              ELSE Failure(out.exc)]

get_order_status(symbol, order_id, out) ==
    [sent |-> [call |-> "futures_get_order", symbol |-> Upper(symbol),
               orderId |-> order_id],
     ret  |-> IF ~out.raised THEN Returns(out.value)
              ELSE IF out.exc.class = "BinanceAPIException"
              THEN FailureWithDetails(out.exc)
              ELSE Failure(out.exc)]

\* a mutant of Matches: the requested asset is compared as given
MatchesAsGiven(balances, asset) ==
    {i \in 1..Len(balances) : balances[i].asset = asset}

\* for balance_info in balances: if balance_info['asset'] == asset.upper()
Matches(balances, asset) ==
    {i \in 1..Len(balances) : balances[i].asset = Upper(asset)}

get_account_balance(asset, out) ==
    [sent |-> [call |-> "futures_account_balance"],
     ret  |-> IF ~out.raised
              THEN LET hits == Matches(out.value, asset) IN
                   IF hits # {}
                   THEN Returns(out.value[CHOOSE i \in hits :
                                            \A j \in hits : i <= j])
                   ELSE Returns([error |-> <<"Asset ">> \o asset
                                           \o <<" not found.">>])
              ELSE IF out.exc.class = "BinanceAPIException"
              THEN FailureWithDetails(out.exc)
              ELSE Failure(out.exc)]

(***************************************************************************)
(* BasicBot.__init__                                                       *)
(***************************************************************************)
TESTNET_BASE_URL == "https://testnet.binancefuture.com"

\* not api_key: a credential is None (<<>>) or a str (<<text>>)
Falsy(v) == v = <<>> \/ v[1] = <<>>

\* Client(api_key, api_secret) pings the exchange and may raise
ClientOutcomes == {Returns("Client")} \cup {Raises(x) : x \in OtherExceptions}

\* a mutant of BasicBot: the credentials are not checked
BasicBotUnchecked(key, secret, testnet, clientOut) ==
    IF clientOut.raised THEN clientOut
    ELSE Returns([api_key |-> key, api_secret |-> secret,
                  API_URL |-> IF testnet THEN <<TESTNET_BASE_URL, "/fapi">>
                              ELSE <<"https://api.binance.com/api">>])

BasicBot(key, secret, testnet, clientOut) ==
    IF Falsy(key) \/ Falsy(secret)
    THEN Raises(Exc("ValueError", <<"API Key and API Secret are required.">>))
    ELSE IF clientOut.raised THEN clientOut
    ELSE Returns([api_key |-> key, api_secret |-> secret,
                  API_URL |-> IF testnet THEN <<TESTNET_BASE_URL, "/fapi">>
                              ELSE <<"https://api.binance.com/api">>])

(***************************************************************************)
(* State.                                                                  *)
(***************************************************************************)
VARIABLES
    bot_instance,   \* st.session_state.bot_instance: <<>> (None) or <<bot>>
    connected,      \* st.session_state.connected
    api_key,        \* st.session_state.api_key
    api_secret,     \* st.session_state.api_secret
    handle,         \* which BasicBot object bot_instance refers to: its
                    \* identity, 0 for None
    checked,        \* the last get_server_time made on that object: "ok",
                    \* "failed", or "never" (none was made)
    ui,             \* the handler the last script run executed, its inputs
                    \* and the session it started from
    calls,          \* the facade invocations of the last step, in order:
                    \* operation, arguments, transport outcome, request, result
    pending         \* a direct facade call about to be made: operation,
                    \* arguments and what the transport will do

vars == <<bot_instance, connected, api_key, api_secret, handle, checked,
          ui, calls, pending>>

Invocation(op, args, out, r) ==
    [op |-> op, args |-> args, out |-> out, sent |-> r.sent, ret |-> r.ret]

Idle == [handler |-> "none"]
NoCall == [op |-> "none"]

\* os.environ.get("BINANCE_TESTNET_API_KEY", ""): set in .env or not
EnvKeys    == {<<>>, <<"k">>}
EnvSecrets == {<<>>, <<"s">>}

Init ==
    /\ bot_instance = <<>>
    /\ connected = FALSE
    /\ api_key \in EnvKeys
    /\ api_secret \in EnvSecrets
    /\ handle = 0
    /\ checked = "never"
    /\ ui = Idle
    /\ calls = <<>>
    /\ pending = NoCall

(***************************************************************************)
(* The facade called directly, with any arguments, on a constructed bot:   *)
(* the initial state draws the call, the action makes it.                  *)
(***************************************************************************)
SymbolLetters == {"b", "B", "1"}
SideLetters == {"s", "S"}
Symbols   == TextsUpTo(SymbolLetters, MaxWordLen) \ {<<>>}
SideWords == TextsUpTo(SideLetters, MaxWordLen) \ {<<>>}
Floats == {MkFloat(FALSE, 1, -3), MkFloat(FALSE, 205, -1)}
OrderIds == {-1, 0, 7}

Pending(op, args, out) == [op |-> op, args |-> args, out |-> out]

NoArgs == [self |-> "bot"]

TimeCalls ==
    {Pending("get_server_time", NoArgs, out) : out \in Outcomes(TimePayloads)}
MarketCalls ==
    {Pending("place_market_order", a, out) :
        a \in [symbol : Symbols, side : SideWords, quantity : Floats],
        out \in Outcomes(OrderPayloads)}
LimitCalls ==
    {Pending("place_limit_order", a, out) :
        a \in [symbol : Symbols, side : SideWords, quantity : Floats,
              price : Floats],
        out \in Outcomes(OrderPayloads)}
StatusCalls ==
    {Pending("get_order_status", a, out) :
        a \in [symbol : Symbols, order_id : OrderIds],
        out \in Outcomes(OrderPayloads)}
BalanceCalls ==
    {Pending("get_account_balance", a, out) :
        a \in [asset : AssetCodes], out \in Outcomes(BalanceLists)}

FacadeInit ==
    /\ bot_instance = <<>>
    /\ connected = FALSE
    /\ api_key = <<>>
    /\ api_secret = <<>>
    /\ handle = 0
    /\ checked = "never"
    /\ ui = Idle
    /\ calls = <<>>
    /\ \/ pending \in TimeCalls
       \/ pending \in MarketCalls
       \/ pending \in LimitCalls
       \/ pending \in StatusCalls
       \/ pending \in BalanceCalls

Session == <<bot_instance, connected, api_key, api_secret, handle, checked,
             ui>>

Made(op, r) ==
    /\ pending.op = op
    /\ calls = <<>>
    /\ calls' = <<Invocation(op, pending.args, pending.out, r)>>
    /\ UNCHANGED <<Session, pending>>

CallGetServerTime ==
    Made("get_server_time", get_server_time(pending.out))

CallPlaceMarketOrder ==
    Made("place_market_order",
         place_market_order(pending.args.symbol, pending.args.side,
                            pending.args.quantity, pending.out))

CallPlaceLimitOrder ==
    Made("place_limit_order",
         place_limit_order(pending.args.symbol, pending.args.side,
                           pending.args.quantity, pending.args.price,
                           pending.out))

CallGetOrderStatus ==
    Made("get_order_status",
         get_order_status(pending.args.symbol, pending.args.order_id,
                          pending.out))

CallGetAccountBalance ==
    Made("get_account_balance",
         get_account_balance(pending.args.asset, pending.out))

FacadeNext ==
    \/ CallGetServerTime
    \/ CallPlaceMarketOrder
    \/ CallPlaceLimitOrder
    \/ CallGetOrderStatus
    \/ CallGetAccountBalance

FacadeSpec == FacadeInit /\ [][FacadeNext]_vars

(***************************************************************************)
(* The Streamlit script.  One user interaction runs the script once, from  *)
(* top to bottom; the handler of the widget that was used runs in it.  ui  *)
(* and calls record that run.  The handlers read the session only, never   *)
(* the record, so a handler is taken from a cleared record and Rerun (a    *)
(* script run without a handler, such as "Refresh Logs" or switching the   *)
(* order type) clears it.                                                  *)
(***************************************************************************)
KeyTexts    == {<<>>, <<"k">>}
SecretTexts == {<<>>, <<"s">>}

Before == [bot_instance |-> bot_instance, connected |-> connected,
           handle |-> handle, checked |-> checked]

\* if server_time_response and "error" not in server_time_response
TimeResponseOk(resp) == DOMAIN resp # {} /\ "error" \notin DOMAIN resp

\* BasicBot(...) makes a new object: the one the session holds is still
\* alive while it is made, so the new one is another object
ObjectIds == {1, 2}
NewObject == CHOOSE i \in ObjectIds : i # handle

\* what the get_server_time calls made on an object say of it: the last
\* one decides
CheckOutcome(made) ==
    IF made = <<>> THEN "never"
    ELSE IF made[Len(made)].ret.raised THEN "failed"
    ELSE IF "error" \in DOMAIN made[Len(made)].ret.value THEN "failed"
    ELSE "ok"

\* "Connect to Binance Testnet": the session and the facade calls it leaves
\* (assigned: line 179 stored a new object in the session)
ConnectHandler(sess, key_in, secret_in, clientOut, timeOut) ==
    IF key_in # <<>> /\ secret_in # <<>>
    THEN LET b == BasicBot(<<key_in>>, <<secret_in>>, TRUE, clientOut) IN
         IF b.raised
         THEN [sess |-> sess, calls |-> <<>>, assigned |-> FALSE,
               shown |-> IF b.exc.class = "ValueError"
                         THEN "Initialization Error"
                         ELSE "An unexpected error occurred"]
         ELSE LET r    == get_server_time(timeOut)
                  inv  == Invocation("get_server_time", NoArgs, timeOut, r)
                  held == [sess EXCEPT !.bot_instance = <<b.value>>,
                                       !.api_key = key_in,
                                       !.api_secret = secret_in]
              IN  IF r.ret.raised
                  THEN [sess |-> held, calls |-> <<inv>>, assigned |-> TRUE,
                        shown |-> "An unexpected error occurred"]
                  ELSE IF TimeResponseOk(r.ret.value)
                  THEN [sess |-> [held EXCEPT !.connected = TRUE],
                        calls |-> <<inv>>, assigned |-> TRUE,
                        shown |-> "Connected!"]
                  ELSE [sess |-> [held EXCEPT !.connected = FALSE],
                        calls |-> <<inv>>, assigned |-> TRUE,
                        shown |-> "Connection Failed"]
    ELSE [sess |-> sess, calls |-> <<>>, assigned |-> FALSE,
          shown |-> "Please enter both API Key and Secret."]

Connect ==
    /\ ui.handler = "none"
    /\ pending = NoCall
    /\ \E key_in \in KeyTexts, secret_in \in SecretTexts,
          clientOut \in ClientOutcomes, timeOut \in Outcomes(TimePayloads) :
         LET h == ConnectHandler([bot_instance |-> bot_instance,
                                  connected |-> connected,
                                  api_key |-> api_key,
                                  api_secret |-> api_secret],
                                 key_in, secret_in, clientOut, timeOut)
         IN  /\ bot_instance' = h.sess.bot_instance
             /\ connected' = h.sess.connected
             /\ api_key' = h.sess.api_key
             /\ api_secret' = h.sess.api_secret
             /\ handle' = IF h.assigned THEN NewObject ELSE handle
             /\ checked' = IF h.assigned THEN CheckOutcome(h.calls)
                           ELSE checked
             /\ calls' = h.calls
             /\ ui' = [handler |-> "connect", api_key_input |-> key_in,
                       api_secret_input |-> secret_in, before |-> Before,
                       shown |-> h.shown]
    /\ UNCHANGED pending

\* a mutant of MainArea: the forms are shown for any handle
MainAreaAnyHandle == bot_instance # <<>>

\* if st.session_state.bot_instance and st.session_state.connected
MainArea == bot_instance # <<>> /\ connected

Rerun ==
    /\ ui.handler # "none"
    /\ pending = NoCall
    /\ ui' = Idle
    /\ calls' = <<>>
    /\ UNCHANGED <<bot_instance, connected, api_key, api_secret, handle, checked,
                   pending>>

QtyChars   == {"0", "5", ".", "-"}
PriceChars == {"0", "5", ".", "n", "a"}
QtyTexts   == TextsUpTo(QtyChars, MaxQtyLen)
PriceTexts == TextsUpTo(PriceChars, MaxPriceLen)
IdChars == {"0", "7", "-", "x"}
IdTexts == TextsUpTo(IdChars, MaxIdLen)
FormSymbols == {<<"b", "t", "c">>}
Sides == {<<"B", "U", "Y">>, <<"S", "E", "L", "L">>}

\* what the page shows for a facade response
Shown(made, failed, ok) ==
    IF made = <<>> THEN "nothing"
    ELSE IF made[1].ret.raised THEN "An unexpected error occurred"
    ELSE IF DOMAIN made[1].ret.value = {} THEN "No response"
    ELSE IF "error" \in DOMAIN made[1].ret.value THEN failed
    ELSE ok

\* order_form, up to the dispatch: what the submit handler decides to do
OrderDecision(order_type, quantity_str, price_str) ==
    LET q == ParseFloat(quantity_str) IN
    IF q = <<>> THEN "Invalid input for quantity or price."
    ELSE IF FloatLeqZero(q[1]) THEN "Quantity must be a positive number."
    ELSE IF order_type = "Market" THEN "place_market_order"
    ELSE LET price == ParseFloat(price_str) IN
         IF price = <<>> THEN "Invalid input for quantity or price."
         ELSE IF FloatLeqZero(price[1])
         THEN "Price must be a positive number for limit orders."
         ELSE "place_limit_order"

OrderForm ==
    /\ ui.handler = "none"
    /\ pending = NoCall
    /\ MainArea
    /\ \E order_type \in {"Market", "Limit"}, text \in FormSymbols,
          side \in Sides, quantity_str \in QtyTexts :
       \E price_str \in IF order_type = "Limit" THEN PriceTexts ELSE {<<"0">>} :
         LET symbol   == Upper(text)
             decision == OrderDecision(order_type, quantity_str, price_str)
         IN  /\ IF decision = "place_market_order"
                THEN \E out \in Outcomes(OrderPayloads) :
                       LET quantity == ParseFloat(quantity_str)[1] IN
                       calls' = <<Invocation("place_market_order",
                                   [symbol |-> symbol, side |-> side,
                                    quantity |-> quantity], out,
                                   place_market_order(symbol, side, quantity, out))>>
                ELSE IF decision = "place_limit_order"
                THEN \E out \in Outcomes(OrderPayloads) :
                       LET quantity == ParseFloat(quantity_str)[1]
                           price    == ParseFloat(price_str)[1]
                       IN  calls' = <<Invocation("place_limit_order",
                                       [symbol |-> symbol, side |-> side,
                                        quantity |-> quantity, price |-> price], out,
                                       place_limit_order(symbol, side, quantity,
                                                         price, out))>>
                ELSE calls' = <<>>
             /\ ui' = [handler |-> "order_form", order_type |-> order_type,
                       symbol |-> symbol, side |-> side,
                       quantity_str |-> quantity_str, price_str |-> price_str,
                       before |-> Before,
                       shown |-> IF calls' = <<>> THEN decision
                                 ELSE Shown(calls', "Order Placement Failed",
                                            "Order Placed Successfully!")]
    /\ UNCHANGED <<bot_instance, connected, api_key, api_secret, handle, checked,
                   pending>>

\* status_form, up to the dispatch
StatusDecision(status_symbol, order_id_str) ==
    IF status_symbol = <<>> \/ order_id_str = <<>>
    THEN "Please enter Symbol and Order ID."
    ELSE IF ParseInt(order_id_str) = <<>>
    THEN "Invalid Order ID. Please enter a number."
    ELSE "get_order_status"

StatusForm ==
    /\ ui.handler = "none"
    /\ pending = NoCall
    /\ MainArea
    /\ \E text \in FormSymbols \cup {<<>>}, order_id_str \in IdTexts :
         LET status_symbol == Upper(text)
             decision == StatusDecision(status_symbol, order_id_str)
         IN  /\ IF decision = "get_order_status"
                THEN \E out \in Outcomes(OrderPayloads) :
                       LET order_id == ParseInt(order_id_str)[1] IN
                       calls' = <<Invocation("get_order_status",
                                   [symbol |-> status_symbol,
                                    order_id |-> order_id], out,
                                   get_order_status(status_symbol, order_id, out))>>
                ELSE calls' = <<>>
             /\ ui' = [handler |-> "status_form",
                       status_symbol |-> status_symbol,
                       order_id_str |-> order_id_str, before |-> Before,
                       shown |-> IF calls' = <<>> THEN decision
                                 ELSE Shown(calls', "Failed to get order status",
                                            "Order Status Retrieved:")]
    /\ UNCHANGED <<bot_instance, connected, api_key, api_secret, handle, checked,
                   pending>>

\* "Fetch USDT Balance"
FetchUSDT ==
    /\ ui.handler = "none"
    /\ pending = NoCall
    /\ MainArea
    /\ \E out \in Outcomes(BalanceLists) :
         calls' = <<Invocation("get_account_balance", [asset |-> USDT], out,
                               get_account_balance(USDT, out))>>
    /\ ui' = [handler |-> "fetch_usdt", before |-> Before,
              shown |-> Shown(calls', "Failed to fetch balance",
                              "USDT Balance Retrieved:")]
    /\ UNCHANGED <<bot_instance, connected, api_key, api_secret, handle, checked,
                   pending>>

\* other_asset_balance_form
OtherAssetForm ==
    /\ ui.handler = "none"
    /\ pending = NoCall
    /\ MainArea
    /\ \E text \in AssetCodes \cup {<<>>} :
         LET other_asset_symbol == Upper(text) IN
         /\ IF other_asset_symbol = <<>>
            THEN calls' = <<>>
            ELSE \E out \in Outcomes(BalanceLists) :
                   calls' = <<Invocation("get_account_balance",
                               [asset |-> other_asset_symbol], out,
                               get_account_balance(other_asset_symbol, out))>>
         /\ ui' = [handler |-> "other_asset_balance_form",
                   other_asset_symbol |-> other_asset_symbol,
                   before |-> Before,
                   shown |-> IF calls' = <<>>
                             THEN "Please enter an asset symbol."
                             ELSE Shown(calls', "Failed to fetch balance",
                                        "Balance Retrieved:")]
    /\ UNCHANGED <<bot_instance, connected, api_key, api_secret, handle, checked,
                   pending>>

Next ==
    \/ Connect
    \/ OrderForm
    \/ StatusForm
    \/ FetchUSDT
    \/ OtherAssetForm
    \/ Rerun

Spec == Init /\ [][Next]_vars

(***************************************************************************)
(* Properties of the facade's failure normalisation (FacadeSpec).          *)
(***************************************************************************)
Made1 == calls # <<>>
TheCall == calls[1]

\* the exception carries a structured API response body
HasStructuredBody(e) ==
    /\ "response" \in DOMAIN e
    /\ e.response # <<>>
    /\ e.response[1].json # <<>>

\* C1 (as claimed): no facade operation ever lets an exception cross its
\* boundary: whatever the transport call does, the operation returns a value.
C1_NeverRaises == Made1 => ~TheCall.ret.raised

\* C2 (as claimed): when the exception carries no structured response body,
\* a returned failure record has "error" and no "details" key at all.
C2_DetailsOmitted ==
    (Made1 /\ TheCall.out.raised /\ ~HasStructuredBody(TheCall.out.exc)
           /\ ~TheCall.ret.raised)
    => /\ "error" \in DOMAIN TheCall.ret.value
       /\ "details" \notin DOMAIN TheCall.ret.value

\* C2 (amended): when the exception carries no structured response body, a
\* returned failure record has "error"; it has no "details" key when the
\* exception is not a BinanceAPIException or the operation is
\* get_server_time, and otherwise "details" is present and is the
\* placeholder string "No response details".
C2_DetailsPlaceholder ==
    (Made1 /\ TheCall.out.raised /\ ~HasStructuredBody(TheCall.out.exc)
           /\ ~TheCall.ret.raised)
    => LET e == TheCall.out.exc
           r == TheCall.ret.value
       IN  /\ "error" \in DOMAIN r
           /\ r.error = e.msg
           /\ IF e.class = "BinanceAPIException"
                 /\ TheCall.op # "get_server_time"
              THEN /\ DOMAIN r = {"error", "details"}
                   /\ r.details = [t |-> "str", v |-> "No response details"]
              ELSE DOMAIN r = {"error"}

\* C2 witness: an API exception without a response came back as a record
\* whose "details" is the placeholder; another fault came back without one.
C2_Witness ==
    /\ Made1
    /\ TheCall.op = "get_order_status"
    /\ TheCall.out.raised
    /\ TheCall.out.exc.class = "BinanceAPIException"
    /\ TheCall.out.exc.response = <<>>
    /\ ~TheCall.ret.raised
    /\ "details" \in DOMAIN TheCall.ret.value

\* C3 (as claimed): for each of the five operations, an exchange-reported
\* error with a structured body yields "error" = the message and "details" =
\* the parsed body; any other runtime fault yields a record with only "error".
C3_IdenticalPattern ==
    (Made1 /\ TheCall.out.raised)
    => LET e == TheCall.out.exc IN
       /\ ~TheCall.ret.raised
       /\ IF e.class = "BinanceAPIException" /\ HasStructuredBody(e)
          THEN /\ DOMAIN TheCall.ret.value = {"error", "details"}
               /\ TheCall.ret.value.error = e.msg
               /\ TheCall.ret.value.details = [t |-> "obj", v |-> e.response[1].json[1]]
          ELSE e.class \notin {"BinanceAPIException", "BinanceOrderException"}
               => DOMAIN TheCall.ret.value = {"error"}

(***************************************************************************)
(* Properties of the order and status forms (Spec).                        *)
(***************************************************************************)
\* the text reads as a number greater than zero
PositiveNumber(t) ==
    LET x == ParseFloat(t) IN
    x # <<>> /\ x[1].kind = "num" /\ ~x[1].neg /\ x[1].m > 0

\* C4 (as claimed): the price of a limit order's outbound request is, character
\* for character, the decimal text typed in the limit price field.
C4_PriceTextPreserved ==
    (ui.handler = "order_form" /\ Made1 /\ TheCall.op = "place_limit_order")
    => TheCall.sent.price = ui.price_str

\* C5 (as claimed): an order-form submission whose quantity is non-numeric or
\* not greater than zero, or (limit order) whose price is, invokes neither
\* place_market_order nor place_limit_order and issues no transport call.
C5_InvalidNeverDispatched ==
    (/\ ui.handler = "order_form"
     /\ \/ ~PositiveNumber(ui.quantity_str)
        \/ ui.order_type = "Limit" /\ ~PositiveNumber(ui.price_str))
    => calls = <<>>

\* an optional sign followed by one or more decimal digits
IntegerText(t) ==
    \E k \in 0..1 :
       /\ Len(t) > k
       /\ k = 1 => t[1] \in {"-", "+"}
       /\ \A i \in (k + 1)..Len(t) :
             t[i] \in {"0", "1", "2", "3", "4", "5", "6", "7", "8", "9"}

\* the integer such a text denotes
IntegerOf(t) ==
    IF t[1] = "-" THEN 0 - DigitsToNat(Tail(t))
    ELSE IF t[1] = "+" THEN DigitsToNat(Tail(t))
    ELSE DigitsToNat(t)

\* C6 (as claimed): an order-status submission whose order id is non-numeric
\* or non-positive is rejected before get_order_status is invoked.
C6_NonPositiveRejected ==
    (/\ ui.handler = "status_form"
     /\ \/ ~IntegerText(ui.order_id_str)
        \/ IntegerOf(ui.order_id_str) <= 0)
    => calls = <<>>

\* C6 (amended): an order-status submission whose order id is empty or is not
\* an integer literal is rejected before get_order_status is invoked; an
\* integer id, zero and negative ones included, is passed to get_order_status
\* (given a symbol).
C6_NonNumericRejected ==
    ui.handler = "status_form"
    => IF IntegerText(ui.order_id_str) /\ ui.status_symbol # <<>>
       THEN /\ Made1
            /\ TheCall.op = "get_order_status"
            /\ TheCall.sent.orderId = IntegerOf(ui.order_id_str)
       ELSE calls = <<>>

\* C6 witness: a connected session submitted a non-numeric order id with a
\* symbol, and no call was made.
C6_Witness ==
    /\ ui.handler = "status_form"
    /\ ui.status_symbol # <<>>
    /\ ui.order_id_str = <<"7", "x">>
    /\ calls = <<>>
    /\ MainArea

(***************************************************************************)
(* Properties of the facade's results and requests (FacadeSpec).           *)
(***************************************************************************)
LowerChar(c) ==
    IF \E i \in 1..26 : UpperAlpha[i] = c
    THEN LowerAlpha[CHOOSE i \in 1..26 : UpperAlpha[i] = c]
    ELSE c

\* the two texts are equal ignoring letter case
SameIgnoringCase(s, t) ==
    /\ Len(s) = Len(t)
    /\ \A i \in 1..Len(s) : LowerChar(s[i]) = LowerChar(t[i])

NotFound(asset) == [error |-> <<"Asset ">> \o asset \o <<" not found.">>]

\* C7 (as claimed): on a fetched balance list, get_account_balance returns the
\* first record whose asset code equals the requested asset ignoring letter
\* case, unchanged, and otherwise the record {"error": "Asset <asset> not
\* found."} without "details".
C7_CaseInsensitiveMatch ==
    (Made1 /\ TheCall.op = "get_account_balance" /\ ~TheCall.out.raised)
    => LET list == TheCall.out.value
           asset == TheCall.args.asset
           hit(i) == SameIgnoringCase(list[i].asset, asset)
       IN  /\ ~TheCall.ret.raised
           /\ IF \E i \in 1..Len(list) : hit(i)
              THEN \E i \in 1..Len(list) :
                      /\ hit(i)
                      /\ \A j \in 1..(i - 1) : ~hit(j)
                      /\ TheCall.ret.value = list[i]
              ELSE TheCall.ret.value = NotFound(asset)

\* C7 (amended): on a fetched balance list, get_account_balance ignores the
\* letter case of the requested asset only: it returns the first record whose
\* asset code has no lower-case letter and equals the requested asset
\* ignoring letter case (the upper-cased request), unchanged, and otherwise
\* the record {"error": "Asset <asset> not found."} without "details".
C7_UpperCasedRequestMatch ==
    (Made1 /\ TheCall.op = "get_account_balance" /\ ~TheCall.out.raised)
    => LET list == TheCall.out.value
           asset == TheCall.args.asset
           hit(i) == /\ SameIgnoringCase(list[i].asset, asset)
                     /\ \A k \in 1..Len(list[i].asset) :
                           UpperChar(list[i].asset[k]) = list[i].asset[k]
       IN  /\ ~TheCall.ret.raised
           /\ IF \E i \in 1..Len(list) : hit(i)
              THEN \E i \in 1..Len(list) :
                      /\ hit(i)
                      /\ \A j \in 1..(i - 1) : ~hit(j)
                      /\ TheCall.ret.value = list[i]
              ELSE TheCall.ret.value = NotFound(asset)

\* C7 witness: a lower-case request found an upper-case record that is not
\* the first of the list.
C7_Witness ==
    /\ Made1
    /\ TheCall.op = "get_account_balance"
    /\ ~TheCall.out.raised
    /\ TheCall.args.asset = <<"u">>
    /\ Len(TheCall.out.value) = 2
    /\ TheCall.out.value[1].asset = USDT
    /\ TheCall.ret.value = TheCall.out.value[2]

UpperCased(t) == \A i \in 1..Len(t) : \A k \in 1..26 : t[i] # LowerAlpha[k]

RECURSIVE CaseVariants(_)
\* every text that differs from t in letter case only
CaseVariants(t) ==
    IF t = <<>> THEN {<<>>}
    ELSE {<<c>> \o v : c \in {LowerChar(t[1]), UpperChar(t[1])},
                       v \in CaseVariants(Tail(t))}

\* C9: two calls of place_market_order (of place_limit_order) whose symbol and
\* side differ only in letter case, other arguments equal, hand the exchange
\* identical requests, with symbol and side upper-cased.
C9_CaseInsensitiveInputs ==
    (Made1 /\ TheCall.op \in {"place_market_order", "place_limit_order"})
    => LET a == TheCall.args IN
       /\ UpperCased(TheCall.sent.symbol)
       /\ UpperCased(TheCall.sent.side)
       /\ SameIgnoringCase(TheCall.sent.symbol, a.symbol)
       /\ SameIgnoringCase(TheCall.sent.side, a.side)
       /\ \A symbol \in CaseVariants(a.symbol), side \in CaseVariants(a.side) :
             TheCall.sent =
                   IF TheCall.op = "place_market_order"
                   THEN place_market_order(symbol, side, a.quantity,
                                           TheCall.out).sent
                   ELSE place_limit_order(symbol, side, a.quantity, a.price,
                                          TheCall.out).sent

\* C9 witness: a limit order was placed with a mixed-case symbol and a
\* lower-case side.
C9_Witness ==
    /\ Made1
    /\ TheCall.op = "place_limit_order"
    /\ TheCall.args.symbol = <<"b", "B">>
    /\ TheCall.args.side = <<"s", "S">>
    /\ TheCall.sent.symbol = <<"B", "B">>
    /\ TheCall.sent.side = <<"S", "S">>

(***************************************************************************)
(* Properties of the connect handler (Spec).                               *)
(***************************************************************************)
\* credentials as a caller can pass them: None, "" or a text
Credentials == {<<>>} \cup {<<t>> : t \in KeyTexts \cup SecretTexts}

\* C10: with an empty or missing key or secret, constructing the bot fails
\* with the configuration error (ValueError) and no handle is created; after
\* such a connect attempt the session's handle and connected flag are what
\* they were before it, and no transport call was issued.
C10_EmptyCredentialsRefused ==
    /\ \A key \in Credentials, secret \in Credentials,
          testnet \in BOOLEAN, clientOut \in ClientOutcomes :
          (key \in {<<>>, <<<<>>>>} \/ secret \in {<<>>, <<<<>>>>})
          => LET b == BasicBot(key, secret, testnet, clientOut) IN
             b.raised /\ b.exc.class = "ValueError"
    /\ (/\ ui.handler = "connect"
        /\ ui.api_key_input = <<>> \/ ui.api_secret_input = <<>>)
       => /\ bot_instance = ui.before.bot_instance
          /\ connected = ui.before.connected
          /\ calls = <<>>

\* C10 witness: a connected session attempted to connect with an empty key;
\* it still holds its handle and is still connected.
C10_Witness ==
    /\ ui.handler = "connect"
    /\ ui.api_key_input = <<>>
    /\ ui.api_secret_input # <<>>
    /\ ui.before.connected
    /\ connected
    /\ bot_instance # <<>>

(***************************************************************************)
(* The session over connect attempts and form submissions (Spec).          *)
(***************************************************************************)
FormHandlers ==
    {"order_form", "status_form", "fetch_usdt", "other_asset_balance_form"}
FormOperations ==
    {"place_market_order", "place_limit_order", "get_order_status",
     "get_account_balance"}

====
